---- MODULE Spec2Model ----
(***************************************************************************)
(* Model of backend/services/soybean.py: the report build                  *)
(* SoybeanService.get_soybean_import_data, the chart query                 *)
(* SoybeanService.get_monthly_comparison and the growth-rate helpers; of   *)
(* backend/routers/trading.py: stream_response and its two endpoints; and  *)
(* of backend/tools/data_fetcher.py: the file cache of DataFetcher.        *)
(*                                                                         *)
(* Conventions.  Python's None is the empty tuple and a present value v is *)
(* the one-element tuple <<v>>.  A float is an exact rational: quantities  *)
(* are integers and a growth rate is a reduced fraction <<num, den>>, so   *)
(* an absent rate <<>> differs from the rate 0.0 = <<0, 1>>.  A date is    *)
(* its proleptic Gregorian ordinal (date.toordinal()), so timedelta        *)
(* arithmetic is integer arithmetic; strftime renders it as <<y, m, d>>.   *)
(* Free text of the policy events is rendered in English.                  *)
(***************************************************************************)
EXTENDS Integers, Sequences, FiniteSets, TLC

VARIABLES
    store,              \* rows of the snapshot table, in physical (scan) order
    now,                \* ticks of the wall clock since the service started
    SessionLocal,       \* "factory", or "None" when __init__ failed
    handler,            \* the handler in flight: "none", "import", "monthly"
    pc,                 \* "idle", "try", "finally", "done"
    db,                 \* the local db: "None" or "session"
    opened,             \* sessions created by the call in flight
    closed,             \* close() invocations made by the call in flight
    current_data,       \* locals of get_soybean_import_data
    prev_year_data,
    prev_month_data,
    monthly_comparison,
    result,             \* the value the call is about to return / returned
    exc,                \* the exception in flight: "none" or where it arose
    absorbed,           \* failures caught and logged inside the call
    outcome,            \* "none", "returned", "raised"
    prev,               \* content of the last report built since the last write
    calc,               \* inputs and outputs of the growth-rate helpers
    analyses,           \* routers/trading.py: the stored analysis of each date
    request,            \* the request in flight: None or <<[endpoint, date]>>
    spc,                \* position of the request and of its stream_response
    response,           \* how many chunks the LLM stream has yet to deliver
    reasoning_content,  \* locals of stream_response
    content,
    events,             \* the events stream_response has yielded
    disconnected,       \* what request.is_disconnected() answers
    observed,           \* Len(events) when the disconnect was seen, else -1
    saves,              \* the calls of save_strategy_analysis of this stream
    saveFailed,         \* the save block raised and was logged
    llmCalls,           \* the LLM calls of this request
    http,               \* what the endpoint gave back
    files,              \* tools/data_fetcher.py: the cache file of each key
    last_call,          \* the last get_daily_data call and what it did
    contracts           \* the last result of get_multiple_contracts_daily

soyVars == <<store, now, SessionLocal, handler, pc, db, opened, closed,
             current_data, prev_year_data, prev_month_data, monthly_comparison,
             result, exc, absorbed, outcome, prev>>

streamVars == <<analyses, request, spc, response, reasoning_content, content,
                events, disconnected, observed, saves, saveFailed, llmCalls, http>>

fetchVars == <<files, last_call, contracts>>

vars == <<store, now, SessionLocal, handler, pc, db, opened, closed,
          current_data, prev_year_data, prev_month_data, monthly_comparison,
          result, exc, absorbed, outcome, prev, calc, streamVars, fetchVars>>

(***************************************************************************)
(* Bounds of the model.                                                    *)
(***************************************************************************)
MaxSnapshots == 3
MaxTicks == 1
MaxQty == 6

None == <<>>
Some(v) == <<v>>

(***************************************************************************)
(* Calendar: datetime's proleptic Gregorian ordinal arithmetic.            *)
(***************************************************************************)
IsLeap(y) == y % 4 = 0 /\ (y % 100 # 0 \/ y % 400 = 0)

DaysInMonth(y, m) ==
    IF m = 2 THEN (IF IsLeap(y) THEN 29 ELSE 28)
    ELSE IF m \in {4, 6, 9, 11} THEN 30 ELSE 31

DaysBeforeYear(y) ==
    (y - 1) * 365 + ((y - 1) \div 4) - ((y - 1) \div 100) + ((y - 1) \div 400)

RECURSIVE DaysBeforeMonth(_, _)
DaysBeforeMonth(y, m) ==
    IF m = 1 THEN 0 ELSE DaysBeforeMonth(y, m - 1) + DaysInMonth(y, m - 1)

\* datetime(y, m, d) as an ordinal
ToDay(y, m, d) == DaysBeforeYear(y) + DaysBeforeMonth(y, m) + d

YearOf(n) ==
    LET n0   == n - 1
        n400 == n0 \div 146097
        r400 == n0 % 146097
        n100 == r400 \div 36524
        r100 == r400 % 36524
        n4   == r100 \div 1461
        r4   == r100 % 1461
        n1   == r4 \div 365
        y    == n400 * 400 + 1 + n100 * 100 + n4 * 4 + n1
    IN  IF n1 = 4 \/ n100 = 4 THEN y - 1 ELSE y

MonthOf(n) ==
    LET y == YearOf(n)
        k == n - DaysBeforeYear(y)
    IN  CHOOSE m \in 1..12 :
            /\ DaysBeforeMonth(y, m) < k
            /\ k <= DaysBeforeMonth(y, m) + DaysInMonth(y, m)

DayOf(n) == n - DaysBeforeYear(YearOf(n)) - DaysBeforeMonth(YearOf(n), MonthOf(n))

\* strftime('%Y-%m-%d') and strftime('%Y-%m')
FormatYMD(n) == <<YearOf(n), MonthOf(n), DayOf(n)>>
FormatYM(n) == <<YearOf(n), MonthOf(n)>>

\* current_date.replace(day=1)
FirstOfMonth(n) == n - DayOf(n) + 1

(***************************************************************************)
(* Floats as exact rationals.                                              *)
(***************************************************************************)
Abs(x) == IF x < 0 THEN 0 - x ELSE x

RECURSIVE Gcd(_, _)
Gcd(a, b) == IF b = 0 THEN a ELSE Gcd(b, a % b)

\* the fraction n/d (d # 0) in lowest terms with a positive denominator
Rat(n, d) ==
    LET g == Gcd(Abs(n), Abs(d))
        s == IF d < 0 THEN 0 - 1 ELSE 1
    IN  <<(s * n) \div g, (s * d) \div g>>

RatTimes(q, k) == Rat(q[1] * k, q[2])

Zero == Rat(0, 1)

(***************************************************************************)
(* Growth-rate helpers.                                                    *)
(***************************************************************************)
_calculate_yoy(current, previous) ==
    IF previous = 0 THEN Zero
    ELSE RatTimes(Rat(current - previous, previous), 100)

\* variant: the change taken relative to the current value
_calculate_mom_OverCurrent(current, previous) ==
    IF previous = 0 THEN Zero
    ELSE IF current = 0 THEN Zero
    ELSE RatTimes(Rat(current - previous, current), 100)

_calculate_mom(current, previous) ==
    IF previous = 0 THEN Zero
    ELSE RatTimes(Rat(current - previous, previous), 100)

(***************************************************************************)
(* The two policy-event lists of the service.                              *)
(***************************************************************************)
PolicyEvent(d, e, i, t) == [date |-> d, event |-> e, impact |-> i, type |-> t]

_get_policy_events ==
    << PolicyEvent("2024-01", "US-China phase one trade agreement review",
                   "watch farm trade commitments, quota and tariff policy", "trade policy"),
       PolicyEvent("2024-02", "Brazil soybean harvest season begins",
                   "Brazil output forecast cut, weather slows harvest, exports weaker", "supply"),
       PolicyEvent("2024-02", "No.1 central document released",
                   "food security, larger soybean acreage, domestic production", "industry policy"),
       PolicyEvent("2024-03", "domestic crush margin turns negative",
                   "weak meal demand, lower run rates, less import buying", "market"),
       PolicyEvent("2024-03", "US prospective plantings report released",
                   "US acreage expected up, affects world prices", "market"),
       PolicyEvent("2024-04", "Argentina removes farm export tax",
                   "Argentine exports more competitive, global supply shifts", "trade policy") >>

policy_events ==
    << PolicyEvent("2024-01-15", "US-China phase one trade agreement review",
                   "may affect import quota and tariff policy", "trade policy"),
       PolicyEvent("2024-02-01", "Brazil soybean harvest season begins",
                   "supply rises, prices may fall", "supply"),
       PolicyEvent("2024-03-10", "domestic crusher subsidy adjusted",
                   "affects crush margin and buying intent", "industry policy"),
       PolicyEvent("2024-04-01", "world soybean futures volatile",
                   "traders more cautious", "market") >>

(***************************************************************************)
(* Rows of the snapshot table (SoybeanImportDB).                           *)
(***************************************************************************)
Row(d, v, pd, cd) ==
    [date |-> d,
     current_shipment |-> v[1], forecast_shipment |-> v[2],
     forecast_next_shipment |-> v[3], current_arrival |-> v[4],
     next_arrival |-> v[5], current_month_arrival |-> v[6],
     next_month_arrival |-> v[7],
     port_details |-> pd, customs_details |-> cd]

Ports ==
    << [port |-> "Qingdao", current |-> 30, history |-> 25],
       [port |-> "Tianjin", current |-> 20, history |-> 22] >>

\* a detail record written without its "current" key
PortsNoCurrent == << [port |-> "Qingdao", history |-> 25] >>

Customs == << [customs |-> "Shanghai", metric |-> "volume", value |-> 12] >>

\* the rows ingestion may write
Arrivals ==
    { Row(ToDay(2022, 12, 31), <<80, 70, 60, 50, 40, 30, 20>>, Ports, Customs),
      Row(ToDay(2023, 6, 10), <<100, 90, 80, 70, 60, 50, 40>>, Ports, Customs),
      Row(ToDay(2023, 6, 13), <<100, 80, 70, 0, 50, 40, 30>>, Ports, Customs),
      Row(ToDay(2023, 6, 19), <<150, 0, 60, 40, 30, 20, 10>>, Ports, <<>>),
      Row(ToDay(2023, 6, 20), <<200, 100, 50, 25, 0, 10, 5>>, <<>>, Customs),
      Row(ToDay(2024, 5, 13), <<96, 88, 0, 66, 55, 44, 33>>, Ports, Customs),
      Row(ToDay(2024, 6, 12), <<120, 110, 100, 90, 80, 70, 60>>, Ports, Customs),
      Row(ToDay(2024, 6, 15), <<120, 100, 90, 60, 75, 85, 0>>, Ports, Customs),
      Row(ToDay(2024, 6, 15), <<130, 100, 90, 60, 75, 85, 0>>, PortsNoCurrent, Customs) }

\* the wall-clock date at tick 0
StartDay == ToDay(2024, 6, 30)
NowDay == StartDay + now

Dates(s) == { s[i].date : i \in 1..Len(s) }
Rows(s) == { s[i] : i \in 1..Len(s) }

(***************************************************************************)
(* The queries of the handlers.                                            *)
(***************************************************************************)
\* query.order_by(date.desc()).first() over the rows with date >= lo
LatestFrom(s, lo) ==
    LET rs == { r \in Rows(s) : r.date >= lo }
    IN  IF rs = {} THEN None
        ELSE Some(CHOOSE r \in rs : \A q \in rs : q.date <= r.date)

\* variant: the latest-row query ordered ascending
Latest_Oldest(s) ==
    IF s = <<>> THEN None
    ELSE Some(CHOOSE r \in Rows(s) : \A q \in Rows(s) : q.date >= r.date)

\* db.query(SoybeanImportDB).order_by(SoybeanImportDB.date.desc()).first()
Latest(s) ==
    IF s = <<>> THEN None
    ELSE Some(CHOOSE r \in Rows(s) : \A q \in Rows(s) : q.date <= r.date)

\* query.filter(date >= lo, date < hi).first(): no ORDER BY, so the first
\* matching row in scan order
FirstInWindow(s, lo, hi) ==
    LET hits == { i \in 1..Len(s) : s[i].date >= lo /\ s[i].date < hi }
    IN  IF hits = {} THEN None
        ELSE Some(s[CHOOSE i \in hits : \A j \in hits : i <= j])

RECURSIVE SortAsc(_)
SortAsc(rs) ==
    IF rs = {} THEN <<>>
    ELSE LET r == CHOOSE x \in rs : \A q \in rs : x.date <= q.date
         IN  <<r>> \o SortAsc(rs \ {r})

\* query.filter(date >= lo, date <= hi).order_by(date.asc()).all()
RangeAsc(s, lo, hi) == SortAsc({ r \in Rows(s) : r.date >= lo /\ r.date <= hi })

\* query.filter(date >= lo).order_by(date.asc()).first()
EarliestFrom(s, lo) ==
    LET rs == RangeAsc(s, lo, ToDay(9999, 12, 31))
    IN  IF rs = <<>> THEN None ELSE Some(rs[1])

(***************************************************************************)
(* Response models.                                                        *)
(***************************************************************************)
ComparisonData(m, v, t) == [month |-> m, value |-> v, type |-> t]

PortDistributionData(p, v, t) == [port |-> p, value |-> v, type |-> t]

PortDetail(detail) == detail

CustomsDetail(detail) == detail

\* the fields of SoybeanImport a constructor call may leave out
SoybeanImportDefaults ==
    [shipment_forecast_diff |-> None, arrival_forecast_diff |-> None,
     monthly_comparison |-> <<>>, port_distribution |-> <<>>,
     created_at |-> None, updated_at |-> None,
     current_shipment_yoy |-> None, forecast_shipment_yoy |-> None,
     current_arrival_yoy |-> None, next_arrival_yoy |-> None,
     current_shipment_mom |-> None, forecast_shipment_mom |-> None,
     current_arrival_mom |-> None, next_arrival_mom |-> None]

SoybeanImport(given) ==
    [k \in DOMAIN given \cup DOMAIN SoybeanImportDefaults |->
        IF k \in DOMAIN given THEN given[k] ELSE SoybeanImportDefaults[k]]

(***************************************************************************)
(* get_soybean_import_data, piece by piece.                                *)
(***************************************************************************)
\* variant: the all-zero report without its policy events
EmptyReport_NoEvents(today) ==
    SoybeanImport(
        [date |-> FormatYMD(today),
         current_shipment |-> 0, forecast_shipment |-> 0,
         forecast_next_shipment |-> 0, current_arrival |-> 0,
         next_arrival |-> 0, current_month_arrival |-> 0,
         next_month_arrival |-> 0,
         port_details |-> <<>>, customs_details |-> <<>>,
         policy_events |-> <<>>])

\* the report returned when the table is empty
EmptyReport(today) ==
    SoybeanImport(
        [date |-> FormatYMD(today),
         current_shipment |-> 0, forecast_shipment |-> 0,
         forecast_next_shipment |-> 0, current_arrival |-> 0,
         next_arrival |-> 0, current_month_arrival |-> 0,
         next_month_arrival |-> 0,
         port_details |-> <<>>, customs_details |-> <<>>,
         policy_events |-> _get_policy_events])

last_year_date(cur) == cur.date - 365

last_month_date(cur) == cur.date - 30

\* variant: a window centred on the target date
PrevYear_Centred(s, cur) ==
    FirstInWindow(s, last_year_date(cur) - 7, last_year_date(cur) + 7)

PrevYear(s, cur) ==
    FirstInWindow(s, last_year_date(cur), last_year_date(cur) + 7)

PrevMonth(s, cur) ==
    FirstInWindow(s, last_month_date(cur), last_month_date(cur) + 7)

\* the four points appended for one row of year_data
Points(data) ==
    << ComparisonData(FormatYMD(data.date), data.current_shipment, "actual_shipment"),
       ComparisonData(FormatYMD(data.date), data.forecast_shipment, "forecast_shipment"),
       ComparisonData(FormatYMD(data.date), data.current_arrival, "actual_arrival"),
       ComparisonData(FormatYMD(data.date), data.next_arrival, "forecast_arrival") >>

RECURSIVE Emit(_)
Emit(year_data) ==
    IF year_data = <<>> THEN <<>>
    ELSE Points(Head(year_data)) \o Emit(Tail(year_data))

\* variant: the range query without its ORDER BY (rows in scan order)
YearData_ScanOrder(s, cur) ==
    SelectSeq(s, LAMBDA r : /\ r.date >= ToDay(YearOf(cur.date) - 1, 1, 1)
                            /\ r.date <= ToDay(YearOf(cur.date), 12, 31))

YearData(s, cur) ==
    RangeAsc(s, ToDay(YearOf(cur.date) - 1, 1, 1), ToDay(YearOf(cur.date), 12, 31))

Chart(s, cur) == Emit(YearData(s, cur))

\* detail["port"] or detail["current"] raises KeyError
BuildRaises(cur) ==
    \E i \in 1..Len(cur.port_details) :
        ~({"port", "current"} \subseteq DOMAIN cur.port_details[i])

\* variant: the report dated by the wall clock, as the all-zero report is
BaseResult_ClockDate(cur, mc, t) ==
    SoybeanImport(
        [date |-> FormatYMD(StartDay + t),
         current_shipment |-> cur.current_shipment,
         forecast_shipment |-> cur.forecast_shipment,
         forecast_next_shipment |-> cur.forecast_next_shipment,
         current_arrival |-> cur.current_arrival,
         next_arrival |-> cur.next_arrival,
         current_month_arrival |-> cur.current_month_arrival,
         next_month_arrival |-> cur.next_month_arrival,
         shipment_forecast_diff |-> Some(cur.current_shipment - cur.forecast_shipment),
         arrival_forecast_diff |-> Some(cur.current_month_arrival - cur.next_arrival),
         monthly_comparison |-> mc,
         port_distribution |->
             [i \in 1..Len(cur.port_details) |->
                 PortDistributionData(cur.port_details[i].port,
                                      cur.port_details[i].current, "current")],
         port_details |->
             [i \in 1..Len(cur.port_details) |-> PortDetail(cur.port_details[i])],
         customs_details |->
             [i \in 1..Len(cur.customs_details) |-> CustomsDetail(cur.customs_details[i])],
         policy_events |-> policy_events,
         created_at |-> Some(t), updated_at |-> Some(t)])

\* variant: arrival_forecast_diff taken from current_arrival
BaseResult_ArrivalDiff(cur, mc, t) ==
    [BaseResult_ClockDate(cur, mc, t) EXCEPT
        !.date = FormatYMD(cur.date),
        !.arrival_forecast_diff = Some(cur.current_arrival - cur.next_arrival)]

BaseResult(cur, mc, t) ==
    SoybeanImport(
        [date |-> FormatYMD(cur.date),
         current_shipment |-> cur.current_shipment,
         forecast_shipment |-> cur.forecast_shipment,
         forecast_next_shipment |-> cur.forecast_next_shipment,
         current_arrival |-> cur.current_arrival,
         next_arrival |-> cur.next_arrival,
         current_month_arrival |-> cur.current_month_arrival,
         next_month_arrival |-> cur.next_month_arrival,
         shipment_forecast_diff |-> Some(cur.current_shipment - cur.forecast_shipment),
         arrival_forecast_diff |-> Some(cur.current_month_arrival - cur.next_arrival),
         monthly_comparison |-> mc,
         port_distribution |->
             [i \in 1..Len(cur.port_details) |->
                 PortDistributionData(cur.port_details[i].port,
                                      cur.port_details[i].current, "current")],
         port_details |->
             [i \in 1..Len(cur.port_details) |-> PortDetail(cur.port_details[i])],
         customs_details |->
             [i \in 1..Len(cur.customs_details) |-> CustomsDetail(cur.customs_details[i])],
         policy_events |-> policy_events,
         created_at |-> Some(t), updated_at |-> Some(t)])

\* variant: zero rates when no year-ago row was found
WithYoy_ZeroWhenMissing(res, cur, py) ==
    LET p == IF py = None THEN [current_shipment |-> 0, forecast_shipment |-> 0,
                                current_arrival |-> 0, next_arrival |-> 0]
             ELSE py[1]
    IN  [res EXCEPT
            !.current_shipment_yoy =
                _calculate_yoy(cur.current_shipment, p.current_shipment),
            !.forecast_shipment_yoy =
                _calculate_yoy(cur.forecast_shipment, p.forecast_shipment),
            !.current_arrival_yoy =
                _calculate_yoy(cur.current_arrival, p.current_arrival),
            !.next_arrival_yoy =
                _calculate_yoy(cur.next_arrival, p.next_arrival)]

WithYoy(res, cur, py) ==
    IF py = None THEN res
    ELSE [res EXCEPT
            !.current_shipment_yoy =
                _calculate_yoy(cur.current_shipment, py[1].current_shipment),
            !.forecast_shipment_yoy =
                _calculate_yoy(cur.forecast_shipment, py[1].forecast_shipment),
            !.current_arrival_yoy =
                _calculate_yoy(cur.current_arrival, py[1].current_arrival),
            !.next_arrival_yoy =
                _calculate_yoy(cur.next_arrival, py[1].next_arrival)]

\* variant: a month-over-month rate for next_arrival as well
WithMom_FourFields(res, cur, pm) ==
    IF pm = None THEN res
    ELSE [res EXCEPT
            !.current_shipment_mom =
                _calculate_mom(cur.current_shipment, pm[1].current_shipment),
            !.forecast_shipment_mom =
                _calculate_mom(cur.forecast_shipment, pm[1].forecast_shipment),
            !.current_arrival_mom =
                _calculate_mom(cur.current_arrival, pm[1].current_arrival),
            !.next_arrival_mom =
                _calculate_mom(cur.next_arrival, pm[1].next_arrival)]

WithMom(res, cur, pm) ==
    IF pm = None THEN res
    ELSE [res EXCEPT
            !.current_shipment_mom =
                _calculate_mom(cur.current_shipment, pm[1].current_shipment),
            !.forecast_shipment_mom =
                _calculate_mom(cur.forecast_shipment, pm[1].forecast_shipment),
            !.current_arrival_mom =
                _calculate_mom(cur.current_arrival, pm[1].current_arrival)]

(***************************************************************************)
(* get_monthly_comparison: the body of its try block.                      *)
(***************************************************************************)
\* forecast_data.forecast_arrival raises AttributeError on a row without it
ForecastRaises(s, today) ==
    LET next_month == FirstOfMonth(today) + 32
        forecast_data == EarliestFrom(s, FirstOfMonth(next_month))
    IN  forecast_data # None /\ "forecast_arrival" \notin DOMAIN forecast_data[1]

MonthlyData(s, today) ==
    LET first_day == FirstOfMonth(today)
        cur == LatestFrom(s, first_day)
        next_month == first_day + 32
        forecast_data == EarliestFrom(s, FirstOfMonth(next_month))
        last_year == YearOf(today) - 1
        yoy_data == RangeAsc(s, ToDay(last_year, 1, 1), ToDay(last_year, 12, 31))
    IN  (IF cur = None THEN <<>>
         ELSE <<ComparisonData(FormatYM(cur[1].date), cur[1].current_shipment,
                               "actual_shipment")>>)
        \o (IF forecast_data = None THEN <<>>
            ELSE <<ComparisonData(FormatYM(forecast_data[1].date),
                                  forecast_data[1].forecast_arrival,
                                  "forecast_arrival")>>)
        \o [i \in 1..Len(yoy_data) |->
               ComparisonData(FormatYM(yoy_data[i].date),
                              yoy_data[i].current_shipment, "actual_shipment")]

(***************************************************************************)
(* State machine.                                                          *)
(***************************************************************************)
\* routers/trading.py before any request: nothing stored, nothing in flight
StreamDates == { <<2024, 6, 29>>, <<2024, 6, 30>> }

StreamInit ==
    /\ analyses = [d \in StreamDates |-> None]
    /\ request = None
    /\ spc = "idle"
    /\ response = 0
    /\ reasoning_content = <<>>
    /\ content = <<>>
    /\ events = <<>>
    /\ disconnected = FALSE
    /\ observed = 0 - 1
    /\ saves = <<>>
    /\ saveFailed = FALSE
    /\ llmCalls = <<>>
    /\ http = "none"

\* tools/data_fetcher.py before any call: an empty save_dir
\* a contract code is its characters: base code, two year digits, two month
\* digits, exchange suffix
Digits2(n) == << (n \div 10) % 10, n % 10 >>

Contract(base_code, year, month) == <<base_code>> \o Digits2(year) \o month \o <<".DCE">>

Years == 20..21

Codes == { Contract("M", y, <<0, 1>>) : y \in Years }

AssetTypes == {"future", "index"}

CacheKeys == { <<c, a, "20240101", "20240131">> : c \in Codes, a \in AssetTypes }

FetchInit ==
    /\ files = [k \in CacheKeys |-> None]
    /\ last_call = None
    /\ contracts = None

Handlers == {"import", "monthly"}

Init ==
    /\ store = <<>>
    /\ now = 0
    /\ SessionLocal \in {"factory", "None"}
    /\ handler = "none"
    /\ pc = "idle"
    /\ db = "None"
    /\ opened = 0
    /\ closed = 0
    /\ current_data = None
    /\ prev_year_data = None
    /\ prev_month_data = None
    /\ monthly_comparison = <<>>
    /\ result = None
    /\ exc = "none"
    /\ absorbed = {}
    /\ outcome = "none"
    /\ prev = None
    /\ calc = None
    /\ StreamInit
    /\ FetchInit

\* ingestion appends a row for a date the table does not hold yet (one row
\* per calendar date); it writes between two calls, a build reading one
\* content of the table
Ingest(r) ==
    /\ pc = "idle"
    /\ Len(store) < MaxSnapshots
    /\ r.date \notin Dates(store)
    /\ store' = Append(store, r)
    /\ prev' = None
    /\ UNCHANGED <<now, SessionLocal, handler, pc, db, opened, closed,
                   current_data, prev_year_data, prev_month_data,
                   monthly_comparison, result, exc, absorbed, outcome, calc>>
    /\ UNCHANGED <<streamVars, fetchVars>>

\* the wall clock moves on between two calls
Tick ==
    /\ pc = "idle"
    /\ now < MaxTicks
    /\ now' = now + 1
    /\ UNCHANGED <<store, SessionLocal, handler, pc, db, opened, closed,
                   current_data, prev_year_data, prev_month_data,
                   monthly_comparison, result, exc, absorbed, outcome, prev, calc>>
    /\ UNCHANGED <<streamVars, fetchVars>>

\* db = None; try: db = self.SessionLocal()
OpenSession(h) ==
    /\ pc = "idle"
    /\ SessionLocal = "factory"
    /\ handler' = h
    /\ db' = "session"
    /\ opened' = 1
    /\ closed' = 0
    /\ pc' = "try"
    /\ outcome' = "none"
    /\ UNCHANGED <<store, now, SessionLocal, current_data, prev_year_data,
                   prev_month_data, monthly_comparison, result, exc, absorbed,
                   prev, calc>>
    /\ UNCHANGED <<streamVars, fetchVars>>

\* self.SessionLocal is None: the call raises TypeError inside the try block;
\* get_soybean_import_data re-raises it, get_monthly_comparison returns []
OpenFails(h) ==
    /\ pc = "idle"
    /\ SessionLocal = "None"
    /\ handler' = h
    /\ db' = "None"
    /\ opened' = 0
    /\ closed' = 0
    /\ pc' = "finally"
    /\ outcome' = "none"
    /\ IF h = "import"
       THEN exc' = "open" /\ result' = None /\ absorbed' = {}
       ELSE exc' = "none" /\ result' = Some(<<>>) /\ absorbed' = {"open"}
    /\ UNCHANGED <<store, now, SessionLocal, current_data, prev_year_data,
                   prev_month_data, monthly_comparison, prev, calc>>
    /\ UNCHANGED <<streamVars, fetchVars>>

\* the query for the latest row raises
ImportLatestFails ==
    /\ pc = "try" /\ handler = "import"
    /\ exc' = "latest"
    /\ pc' = "finally"
    /\ UNCHANGED <<store, now, SessionLocal, handler, db, opened, closed,
                   current_data, prev_year_data, prev_month_data,
                   monthly_comparison, result, absorbed, outcome, prev, calc>>
    /\ UNCHANGED <<streamVars, fetchVars>>

\* if not current_data: return the all-zero report
ImportEmpty ==
    /\ pc = "try" /\ handler = "import"
    /\ Latest(store) = None
    /\ result' = Some(EmptyReport(NowDay))
    /\ pc' = "finally"
    /\ UNCHANGED <<store, now, SessionLocal, handler, db, opened, closed,
                   current_data, prev_year_data, prev_month_data,
                   monthly_comparison, exc, absorbed, outcome, prev, calc>>
    /\ UNCHANGED <<streamVars, fetchVars>>

\* the year-ago or the month-ago query raises
ImportLookupFails(f) ==
    /\ pc = "try" /\ handler = "import"
    /\ Latest(store) # None
    /\ current_data' = Latest(store)
    /\ prev_year_data' =
          IF f = "prev_month" THEN PrevYear(store, Latest(store)[1]) ELSE None
    /\ exc' = f
    /\ pc' = "finally"
    /\ UNCHANGED <<store, now, SessionLocal, handler, db, opened, closed,
                   prev_month_data, monthly_comparison, result, absorbed,
                   outcome, prev, calc>>
    /\ UNCHANGED <<streamVars, fetchVars>>

\* variant: the points appended before the failure are kept
ChartOnFailure_KeepPartial(partial) == partial

\* except Exception: monthly_comparison = [] -- whatever was appended is dropped
ChartOnFailure(partial) == <<>>

\* the rows whose points are appended before chart assembly raises: none
\* when the range query raises, a proper prefix when an append raises
PrefixLengths(year_data) ==
    IF year_data = <<>> THEN {0} ELSE 0..(Len(year_data) - 1)

\* both lookups answer; the chart is assembled (or, when that raises, left
\* empty) and the report is built
ImportBuild(chartRaises) ==
    /\ pc = "try" /\ handler = "import"
    /\ Latest(store) # None
    /\ LET cur == Latest(store)[1]
           py  == PrevYear(store, cur)
           pm  == PrevMonth(store, cur)
       IN  /\ current_data' = Some(cur)
           /\ prev_year_data' = py
           /\ prev_month_data' = pm
           /\ IF chartRaises
              THEN \E k \in PrefixLengths(YearData(store, cur)) :
                      monthly_comparison' =
                          ChartOnFailure(Emit(SubSeq(YearData(store, cur), 1, k)))
              ELSE monthly_comparison' = Chart(store, cur)
           /\ absorbed' = IF chartRaises THEN {"chart"} ELSE {}
           /\ IF BuildRaises(cur)
              THEN exc' = "build" /\ result' = None
              ELSE /\ exc' = "none"
                   /\ result' = Some(WithMom(WithYoy(BaseResult(cur, monthly_comparison', now),
                                                     cur, py), cur, pm))
    /\ pc' = "finally"
    /\ UNCHANGED <<store, now, SessionLocal, handler, db, opened, closed,
                   outcome, prev, calc>>
    /\ UNCHANGED <<streamVars, fetchVars>>

get_soybean_import_data ==
    \/ ImportLatestFails
    \/ ImportEmpty
    \/ \E f \in {"prev_year", "prev_month"} : ImportLookupFails(f)
    \/ \E chartRaises \in BOOLEAN : ImportBuild(chartRaises)

\* the try block of get_monthly_comparison; any exception returns []
get_monthly_comparison(queryRaises) ==
    /\ pc = "try" /\ handler = "monthly"
    /\ IF queryRaises \/ ForecastRaises(store, NowDay)
       THEN result' = Some(<<>>) /\ absorbed' = {"monthly"}
       ELSE result' = Some(MonthlyData(store, NowDay)) /\ absorbed' = {}
    /\ pc' = "finally"
    /\ UNCHANGED <<store, now, SessionLocal, handler, db, opened, closed,
                   current_data, prev_year_data, prev_month_data,
                   monthly_comparison, exc, outcome, prev, calc>>
    /\ UNCHANGED <<streamVars, fetchVars>>

\* variant: the except clause logs and does not re-raise
Outcome_Swallowed(e) == "returned"

\* except Exception: log; raise -- an exception in flight leaves the call raised
Outcome(e) == IF e = "none" THEN "returned" ELSE "raised"

\* variant: the test on db inverted
ClosesInFinally_Inverted(d) == IF d = "session" THEN 0 ELSE 1

\* finally: if db: db.close(), a failure of close being logged and dropped
ClosesInFinally(d) == IF d = "session" THEN 1 ELSE 0

Finally(closeRaises) ==
    /\ pc = "finally"
    /\ closeRaises => db = "session"
    /\ closed' = closed + ClosesInFinally(db)
    /\ absorbed' = IF closeRaises THEN absorbed \cup {"close"} ELSE absorbed
    /\ outcome' = Outcome(exc)
    /\ pc' = "done"
    /\ UNCHANGED <<store, now, SessionLocal, handler, db, opened,
                   current_data, prev_year_data, prev_month_data,
                   monthly_comparison, result, exc, prev, calc>>
    /\ UNCHANGED <<streamVars, fetchVars>>

\* the report without its two timestamps
Content(r) == [k \in DOMAIN r \ {"created_at", "updated_at"} |-> r[k]]

\* the caller takes the outcome; the locals of the call are gone
Respond ==
    /\ pc = "done"
    /\ prev' = IF handler = "import" /\ outcome = "returned" /\ "chart" \notin absorbed
               THEN Some(Content(result[1])) ELSE prev
    /\ pc' = "idle"
    /\ handler' = "none"
    /\ db' = "None"
    /\ opened' = 0
    /\ closed' = 0
    /\ current_data' = None
    /\ prev_year_data' = None
    /\ prev_month_data' = None
    /\ monthly_comparison' = <<>>
    /\ result' = None
    /\ exc' = "none"
    /\ absorbed' = {}
    /\ outcome' = "none"
    /\ UNCHANGED <<store, now, SessionLocal, calc>>
    /\ UNCHANGED <<streamVars, fetchVars>>

Next ==
    \/ \E r \in Arrivals : Ingest(r)
    \/ Tick
    \/ \E h \in Handlers : OpenSession(h)
    \/ \E h \in Handlers : OpenFails(h)
    \/ get_soybean_import_data
    \/ \E queryRaises \in BOOLEAN : get_monthly_comparison(queryRaises)
    \/ \E closeRaises \in BOOLEAN : Finally(closeRaises)
    \/ Respond

Spec == Init /\ [][Next]_vars

(***************************************************************************)
(* The growth-rate helpers on their own: every pair of inputs in range.    *)
(***************************************************************************)
Quantities == (0 - MaxQty)..MaxQty

InitCalc ==
    /\ store = <<>>
    /\ now = 0
    /\ SessionLocal = "factory"
    /\ handler = "none"
    /\ pc = "idle"
    /\ db = "None"
    /\ opened = 0
    /\ closed = 0
    /\ current_data = None
    /\ prev_year_data = None
    /\ prev_month_data = None
    /\ monthly_comparison = <<>>
    /\ result = None
    /\ exc = "none"
    /\ absorbed = {}
    /\ outcome = "none"
    /\ prev = None
    /\ \E c \in Quantities, p \in Quantities :
          calc = Some([current |-> c, previous |-> p, yoy |-> None, mom |-> None])
    /\ StreamInit
    /\ FetchInit

ApplyCalc ==
    /\ calc # None
    /\ calc[1].yoy = None
    /\ calc' = Some([calc[1] EXCEPT
                        !.yoy = _calculate_yoy(calc[1].current, calc[1].previous),
                        !.mom = _calculate_mom(calc[1].current, calc[1].previous)])
    /\ UNCHANGED <<store, now, SessionLocal, handler, pc, db, opened, closed,
                   current_data, prev_year_data, prev_month_data,
                   monthly_comparison, result, exc, absorbed, outcome, prev>>
    /\ UNCHANGED <<streamVars, fetchVars>>

NextCalc == ApplyCalc

SpecCalc == InitCalc /\ [][NextCalc]_vars

(***************************************************************************)
(* routers/trading.py: the two strategy endpoints and the generator        *)
(* stream_response that relays the LLM stream as server-sent events.       *)
(* Text is a sequence of tokens: "" is <<>> and += is \o.                  *)
(***************************************************************************)
MaxChunks == 2

\* chunk.choices[0].delta of one chunk; ok = FALSE is a chunk whose access
\* raises inside the inner try (no choices, no such attribute)
Delta(ok, r, c) == [ok |-> ok, reasoning_content |-> r, content |-> c]

Chunks ==
    { Delta(TRUE, <<"think">>, <<>>),
      Delta(TRUE, <<>>, <<"sell">>),
      Delta(TRUE, <<"think">>, <<"sell">>),
      Delta(TRUE, <<>>, <<>>),
      Delta(FALSE, <<>>, <<>>) }

\* the lengths of the streams client.chat.completions.create gives back
Responses == 0..MaxChunks

ReasoningEvent(rc) == [type |-> "reasoning", content |-> rc]

ContentEvent(c) == [type |-> "content", content |-> c]

DoneEvent(rc, c) == [type |-> "done", reasoning |-> rc, content |-> c]

ErrorEvent == [type |-> "error", message |-> "str(e)"]

DailyStrategyAnalysis_Swapped(date, c, rc) ==
    [date |-> date, content |-> rc, reasoning_content |-> c]

DailyStrategyAnalysis(date, c, rc) ==
    [date |-> date, content |-> c, reasoning_content |-> rc]

\* services/trading.py, TradingService: the analysis kept for a date, if
\* any, and the keeping of one under its date
get_strategy_analysis(date) == analyses[date]

save_strategy_analysis(analysis) ==
    [analyses EXCEPT ![analysis.date] = Some(analysis)]

\* `if analysis:` is false: nothing stored, the LLM is asked
NeedsLLM(analysis) == analysis = None

\* where the generator goes after the 'error' event of the outer except
AfterError_FallThrough == "done"

AfterError == "end"

Endpoints == {"options", "generate"}

RequestDates(endpoint) ==
    IF endpoint = "options" THEN StreamDates ELSE { FormatYMD(NowDay) }

\* get_options_strategies: get_strategy_analysis raises, HTTP 500
OptionsLookupFails(d) ==
    /\ spc = "idle"
    /\ d \in RequestDates("options")
    /\ request' = Some([endpoint |-> "options", date |-> d])
    /\ http' = "500"
    /\ spc' = "responded"
    /\ UNCHANGED <<analyses, response, reasoning_content, content, events,
                   disconnected, observed, saves, saveFailed, llmCalls>>
    /\ UNCHANGED <<soyVars, calc, fetchVars>>

\* get_options_strategies: the stored analysis is returned, no LLM call
OptionsStored(d) ==
    /\ spc = "idle"
    /\ d \in RequestDates("options")
    /\ ~NeedsLLM(get_strategy_analysis(d))
    /\ request' = Some([endpoint |-> "options", date |-> d])
    /\ http' = "stored"
    /\ spc' = "responded"
    /\ UNCHANGED <<analyses, response, reasoning_content, content, events,
                   disconnected, observed, saves, saveFailed, llmCalls>>
    /\ UNCHANGED <<soyVars, calc, fetchVars>>

\* both endpoints: client.chat.completions.create, then StreamingResponse
\* over stream_response(response, request, date); created = FALSE is the
\* call raising, HTTP 500
CreateStream(endpoint, d, resp, created) ==
    /\ spc = "idle"
    /\ d \in RequestDates(endpoint)
    /\ endpoint = "options" => NeedsLLM(get_strategy_analysis(d))
    /\ request' = Some([endpoint |-> endpoint, date |-> d])
    /\ llmCalls' = Append(llmCalls, [endpoint |-> endpoint, date |-> d,
                                     stored |-> analyses[d]])
    /\ IF created
       THEN /\ response' = resp
            /\ http' = "stream"
            /\ spc' = "loop"
       ELSE /\ response' = 0
            /\ http' = "500"
            /\ spc' = "responded"
    /\ UNCHANGED <<analyses, reasoning_content, content, events,
                   disconnected, observed, saves, saveFailed>>
    /\ UNCHANGED <<soyVars, calc, fetchVars>>

\* the client goes away while the stream is being sent
ClientDisconnects ==
    /\ spc \in {"loop", "save"}
    /\ ~disconnected
    /\ disconnected' = TRUE
    /\ UNCHANGED <<analyses, request, spc, response, reasoning_content, content,
                   events, observed, saves, saveFailed, llmCalls, http>>
    /\ UNCHANGED <<soyVars, calc, fetchVars>>

\* for chunk in response: the stream is exhausted
LoopEnds ==
    /\ spc = "loop"
    /\ response = 0
    /\ spc' = "done"
    /\ UNCHANGED <<analyses, request, response, reasoning_content, content,
                   events, disconnected, observed, saves, saveFailed, llmCalls, http>>
    /\ UNCHANGED <<soyVars, calc, fetchVars>>

\* if await request.is_disconnected(): break
ObserveDisconnect ==
    /\ spc = "loop"
    /\ response > 0
    /\ disconnected
    /\ observed' = Len(events)
    /\ spc' = "done"
    /\ UNCHANGED <<analyses, request, response, reasoning_content, content,
                   events, disconnected, saves, saveFailed, llmCalls, http>>
    /\ UNCHANGED <<soyVars, calc, fetchVars>>

\* one iteration of the loop body over the next chunk, whose delta is delta
ProcessChunk(delta) ==
    /\ spc = "loop"
    /\ response > 0
    /\ ~disconnected
    /\ delta \in Chunks
    /\ IF ~delta.ok
       THEN UNCHANGED <<reasoning_content, content, events>>
       ELSE IF delta.reasoning_content # <<>>
       THEN /\ reasoning_content' = reasoning_content \o delta.reasoning_content
            /\ events' = Append(events, ReasoningEvent(reasoning_content'))
            /\ UNCHANGED content
       ELSE IF delta.content # <<>>
       THEN /\ content' = content \o delta.content
            /\ events' = Append(events, ContentEvent(content'))
            /\ UNCHANGED reasoning_content
       ELSE UNCHANGED <<reasoning_content, content, events>>
    /\ response' = response - 1
    /\ UNCHANGED <<analyses, request, spc, disconnected, observed, saves,
                   saveFailed, llmCalls, http>>
    /\ UNCHANGED <<soyVars, calc, fetchVars>>

\* the iteration of response or is_disconnected() raises: outer except
StreamRaises ==
    /\ spc = "loop"
    /\ events' = Append(events, ErrorEvent)
    /\ spc' = AfterError
    /\ UNCHANGED <<analyses, request, response, reasoning_content, content,
                   disconnected, observed, saves, saveFailed, llmCalls, http>>
    /\ UNCHANGED <<soyVars, calc, fetchVars>>

\* the 'done' event after the loop
YieldDone ==
    /\ spc = "done"
    /\ events' = Append(events, DoneEvent(reasoning_content, content))
    /\ spc' = "save"
    /\ UNCHANGED <<analyses, request, response, reasoning_content, content,
                   disconnected, observed, saves, saveFailed, llmCalls, http>>
    /\ UNCHANGED <<soyVars, calc, fetchVars>>

SaveOutcomes == {"saved", "service_raises", "save_raises"}

\* the save block: TradingService(), DailyStrategyAnalysis(...),
\* save_strategy_analysis(analysis); whatever it raises is logged
SaveAnalysis(how) ==
    /\ spc = "save"
    /\ how \in SaveOutcomes
    /\ LET analysis == DailyStrategyAnalysis(request[1].date, content, reasoning_content)
       IN  /\ saves' = IF how = "service_raises" THEN saves ELSE Append(saves, analysis)
           /\ analyses' = IF how = "saved"
                          THEN save_strategy_analysis(analysis)
                          ELSE analyses
    /\ saveFailed' = (how # "saved")
    /\ spc' = "end"
    /\ UNCHANGED <<request, response, reasoning_content, content, events,
                   disconnected, observed, llmCalls, http>>
    /\ UNCHANGED <<soyVars, calc, fetchVars>>

\* the consumer closes the generator while it is suspended: GeneratorExit
\* and CancelledError are not Exceptions, only the finally block runs
Close ==
    /\ spc \in {"loop", "save"}
    /\ disconnected
    /\ spc' = "closed"
    /\ UNCHANGED <<analyses, request, response, reasoning_content, content,
                   events, disconnected, observed, saves, saveFailed, llmCalls, http>>
    /\ UNCHANGED <<soyVars, calc, fetchVars>>

\* the request is over; the next one starts from fresh locals
Finish ==
    /\ spc \in {"end", "closed", "responded"}
    /\ request' = None
    /\ spc' = "idle"
    /\ response' = 0
    /\ reasoning_content' = <<>>
    /\ content' = <<>>
    /\ events' = <<>>
    /\ disconnected' = FALSE
    /\ observed' = 0 - 1
    /\ saves' = <<>>
    /\ saveFailed' = FALSE
    /\ llmCalls' = <<>>
    /\ http' = "none"
    /\ UNCHANGED analyses
    /\ UNCHANGED <<soyVars, calc, fetchVars>>

get_options_strategies ==
    \/ \E d \in StreamDates : OptionsLookupFails(d)
    \/ \E d \in StreamDates : OptionsStored(d)
    \/ \E d \in StreamDates, resp \in Responses, created \in BOOLEAN :
          CreateStream("options", d, resp, created)

generate_strategy ==
    \E resp \in Responses, created \in BOOLEAN :
        CreateStream("generate", FormatYMD(NowDay), resp, created)

stream_response ==
    \/ LoopEnds
    \/ ObserveDisconnect
    \/ \E delta \in Chunks : ProcessChunk(delta)
    \/ StreamRaises
    \/ YieldDone
    \/ \E how \in SaveOutcomes : SaveAnalysis(how)

NextStream ==
    \/ get_options_strategies
    \/ generate_strategy
    \/ stream_response
    \/ ClientDisconnects
    \/ Close
    \/ Finish

\* the router does not use SoybeanService: one way of constructing it is enough
InitStream == Init /\ SessionLocal = "factory"

SpecStream == InitStream /\ [][NextStream]_vars

(***************************************************************************)
(* tools/data_fetcher.py: DataFetcher.get_daily_data and its file cache,   *)
(* and get_multiple_contracts_daily which calls it once per contract.      *)
(* A frame is its date column; a csv file is its header and its lines.     *)
(***************************************************************************)
MaxRows == 2

TradeDates == {20240102, 20240103}

\* a DataFrame: which column holds the dates, their dtype, their values
Frame(columns, dtype, date) == [columns |-> columns, dtype |-> dtype, date |-> date]

\* what pro.daily / pro.fut_daily / pro.fund_daily can give back
VendorFrames ==
    { Frame(c, "object", d) :
        c \in {"trade_date", "date", "other"},
        d \in UNION { [1..n -> TradeDates] : n \in 0..MaxRows } }

\* filename = f"{code}_{asset_type}_daily_{start_date}_{end_date}.csv"
filepath(code, asset_type, start_date, end_date) ==
    <<code, asset_type, start_date, end_date>>

Supported(asset_type) == asset_type \in {"stock", "future", "fund"}

\* df.rename(columns={"trade_date": "date"}) when the column is there
Renamed(df) ==
    IF df.columns = "trade_date" THEN [df EXCEPT !.columns = "date"] ELSE df

RECURSIVE InsertValue(_, _)
InsertValue(v, sorted) ==
    IF sorted = <<>> THEN <<v>>
    ELSE IF v < Head(sorted) THEN <<v>> \o sorted
    ELSE <<Head(sorted)>> \o InsertValue(v, Tail(sorted))

RECURSIVE SortValues(_)
SortValues(values) ==
    IF values = <<>> THEN <<>>
    ELSE InsertValue(values[Len(values)], SortValues(SubSeq(values, 1, Len(values) - 1)))

\* df.sort_values("date"); raises KeyError without a date column
SortRaises(df) == df.columns # "date"

sort_values(df) == [df EXCEPT !.date = SortValues(df.date)]

\* df.to_csv(filepath, index=False): the text of the file
to_csv(df) == [header |-> TRUE, lines |-> df.date]

\* the ways df.to_csv can end: the whole file; open() refused, no file; the
\* file created and the write failing before or in the middle of the text
WriteOutcomes == {"written", "refused", "empty", "cut"}

Written(before, df, write) ==
    CASE write = "written" -> Some(to_csv(df))
      [] write = "refused" -> before
      [] write = "empty"   -> Some([header |-> FALSE, lines |-> <<>>])
      [] write = "cut"     -> Some([header |-> TRUE,
                                    lines |-> SubSeq(df.date, 1, Len(df.date) - 1)])

\* pd.read_csv(filepath): digits are parsed as integers; a file of no
\* bytes raises EmptyDataError
ReadRaises(text) == ~text.header

read_csv(text) == Frame("date", "int64", text.lines)

\* get_daily_data on the files fs: what it returns, the files afterwards and
\* whether the vendor was called. vendor is None when the vendor call
\* raises; read = FALSE is read_csv failing on an I/O error
DailyData(fs, key, vendor, write, read) ==
    LET before == fs[key]
        out(ret, after, called) ==
            [ret |-> ret, files |-> [fs EXCEPT ![key] = after], vendorCalled |-> called]
    IN  IF before # None
        THEN IF ~read \/ ReadRaises(before[1])
             THEN out(None, before, FALSE)
             ELSE out(Some(read_csv(before[1])), before, FALSE)
        ELSE IF ~Supported(key[2]) THEN out(None, before, FALSE)
        ELSE IF vendor = None THEN out(None, before, TRUE)
        ELSE IF SortRaises(Renamed(vendor[1])) THEN out(None, before, TRUE)
        ELSE LET df == sort_values(Renamed(vendor[1]))
             IN  out(IF write = "written" THEN Some(df) ELSE None,
                     Written(before, df, write), TRUE)

\* the outcomes a call never consults are held fixed: no vendor call and no
\* write when the file exists or the asset type is refused, no read when
\* there is no file, no write when there is no sorted frame
Consulted(fs, key, vendor, write, read) ==
    /\ fs[key] # None => (vendor = None /\ write = "written")
    /\ fs[key] = None => read
    /\ ~Supported(key[2]) => vendor = None
    /\ (vendor = None \/ SortRaises(Renamed(vendor[1]))) => write = "written"

\* get_multiple_contracts_daily is between two of its calls
InLoop == contracts # None /\ contracts[1].todo # <<>>

\* `if df is not None and len(df) > 0: results[contract] = df`
Kept(df) == df # None /\ Len(df[1].date) > 0

\* one call of get_daily_data, made directly or by the loop of
\* get_multiple_contracts_daily for its next contract
get_daily_data(code, asset_type, vendor, write, read) ==
    /\ InLoop => (code = Head(contracts[1].todo) /\ asset_type = contracts[1].asset_type)
    /\ Consulted(files, filepath(code, asset_type, "20240101", "20240131"), vendor, write, read)
    /\ LET key == filepath(code, asset_type, "20240101", "20240131")
           out == DailyData(files, key, vendor, write, read)
       IN  /\ files' = out.files
           /\ last_call' = Some([key |-> key, before |-> files[key],
                                 vendorCalled |-> out.vendorCalled, ret |-> out.ret])
           /\ contracts' =
                 IF InLoop
                 THEN Some([contracts[1] EXCEPT
                              !.todo = Tail(@),
                              !.results = IF Kept(out.ret)
                                          THEN Append(@, [contract |-> code, df |-> out.ret[1]])
                                          ELSE @,
                              !.dropped = IF Kept(out.ret) THEN @ ELSE Append(@, code)])
                 ELSE None
    /\ UNCHANGED <<soyVars, calc, streamVars>>

\* get_multiple_contracts_daily up to its loop: the contracts of the years
\* start_contract[1:3] .. end_contract[1:3] with the month of start_contract
get_multiple_contracts_daily(base_code, start_contract, end_contract, asset_type) ==
    /\ ~InLoop
    /\ LET start_year == 10 * start_contract[2] + start_contract[3]
           end_year   == 10 * end_contract[2] + end_contract[3]
           month      == SubSeq(start_contract, 4, 5)
           n          == IF end_year >= start_year THEN end_year - start_year + 1 ELSE 0
       IN  contracts' = Some([todo |-> [i \in 1..n |-> Contract(base_code, start_year + i - 1, month)],
                              asset_type |-> asset_type,
                              results |-> <<>>,
                              dropped |-> <<>>])
    /\ last_call' = None
    /\ UNCHANGED files
    /\ UNCHANGED <<soyVars, calc, streamVars>>

ContractNames == { <<"M">> \o Digits2(y) \o <<0, 1>> : y \in Years }

NextFetch ==
    \/ \E code \in Codes, asset_type \in AssetTypes,
          vendor \in {None} \cup { Some(f) : f \in VendorFrames },
          write \in WriteOutcomes, read \in BOOLEAN :
          get_daily_data(code, asset_type, vendor, write, read)
    \/ \E start_contract \in ContractNames, end_contract \in ContractNames,
          asset_type \in AssetTypes :
          get_multiple_contracts_daily("M", start_contract, end_contract, asset_type)

InitFetch == Init /\ SessionLocal = "factory"

SpecFetch == InitFetch /\ [][NextFetch]_vars

(***************************************************************************)
(* Properties.                                                             *)
(***************************************************************************)
\* a report build has returned and the caller has not yet taken the report
Returned == pc = "done" /\ handler = "import" /\ outcome = "returned"

Report == result[1]

\* the date of the reference snapshot, read off the table
RefDate == CHOOSE d \in Dates(store) : \A e \in Dates(store) : e <= d

InWindow(lo, hi) == { r \in Rows(store) : r.date >= lo /\ r.date < hi }

YearWindow == InWindow(RefDate - 365, RefDate - 365 + 7)

MonthWindow == InWindow(RefDate - 30, RefDate - 30 + 7)

D20230610 == ToDay(2023, 6, 10)
D20230613 == ToDay(2023, 6, 13)
D20240612 == ToDay(2024, 6, 12)
D20240615 == ToDay(2024, 6, 15)

\* C1 (as stated): with snapshots dated 2023-06-10 (shipment 100) and
\* 2024-06-12 (shipment 120) the report for 2024-06-12 has
\* current_shipment_yoy = 20.0.
C1_YoyTwenty ==
    (Returned /\ Dates(store) = {D20230610, D20240612})
        => Report.current_shipment_yoy = <<20, 1>>

\* C1 (amended): with those two snapshots current_shipment_yoy is absent,
\* 2023-06-10 lying before the window [2023-06-13, 2023-06-20) that starts
\* 365 days before 2024-06-12; with the earlier snapshot dated 2023-06-13
\* (shipment 100) it is 20.0.
C1_YoyAbsentOutsideWindow ==
    /\ (Returned /\ Dates(store) = {D20230610, D20240612})
          => /\ Report.date = <<2024, 6, 12>>
             /\ Report.current_shipment = 120
             /\ Report.current_shipment_yoy = None
    /\ (Returned /\ Dates(store) = {D20230613, D20240612})
          => /\ Report.date = <<2024, 6, 12>>
             /\ Report.current_shipment_yoy = <<20, 1>>

C1_Witness ==
    /\ Returned
    /\ Dates(store) = {D20230610, D20240612}
    /\ \E r \in Rows(store) : r.date = D20230610 /\ r.current_shipment = 100
    /\ RefDate - 365 = D20230613

\* C2: every report returned by get_soybean_import_data, on an empty and on
\* a non-empty table, carries the one static policy_events list.
C2_OnePolicyList ==
    Returned => Report.policy_events = _get_policy_events

WithoutDate(r) == [k \in DOMAIN r \ {"date"} |-> r[k]]

SmallestIn(W) ==
    IF W = {} THEN None
    ELSE Some(CHOOSE r \in W : \A q \in W : r.date <= q.date)

\* both lookups of the call in flight have answered
LookupsDone ==
    /\ handler = "import" /\ pc \in {"finally", "done"}
    /\ current_data # None /\ exc \in {"none", "build"}

C4_SmallestDateInWindow ==
    LookupsDone => /\ prev_year_data = SmallestIn(YearWindow)
                   /\ prev_month_data = SmallestIn(MonthWindow)

YoyFields ==
    {"current_shipment_yoy", "forecast_shipment_yoy",
     "current_arrival_yoy", "next_arrival_yoy"}

MomFields ==
    {"current_shipment_mom", "forecast_shipment_mom", "current_arrival_mom"}

\* C5: on a non-empty table the four year-over-year fields are populated
\* when some snapshot is dated in [reference - 365, reference - 365 + 7) and
\* all absent (not zero) otherwise; a missing comparable never fails the
\* build; a table holding only the snapshot of 2024-06-15 gives
\* current_shipment_yoy and current_shipment_mom absent.
C5_YoyIffComparable ==
    /\ (Returned /\ store # <<>>)
          => /\ YearWindow # {} => \A k \in YoyFields : Report[k] # None
             /\ YearWindow = {} => \A k \in YoyFields : Report[k] = None
             /\ Dates(store) = {D20240615}
                   => /\ Report.current_shipment_yoy = None
                      /\ Report.current_shipment_mom = None
    /\ (handler = "import" /\ pc \in {"finally", "done"} /\ exc = "build")
          => BuildRaises(current_data[1])

C5_Witness ==
    /\ Returned
    /\ Dates(store) = {D20240615}
    /\ Report.current_shipment_yoy = None
    /\ Report.current_shipment_mom = None

RawFields ==
    {"current_shipment", "forecast_shipment", "forecast_next_shipment",
     "current_arrival", "next_arrival", "current_month_arrival",
     "next_month_arrival"}

\* C6: on an empty table get_soybean_import_data returns (it raises only
\* when the session or the first query fails) a report with the seven raw
\* fields 0.0, empty port_details and customs_details, the non-empty fixed
\* policy_events and no year-over-year or month-over-month field populated.
C6_EmptyStoreReport ==
    (handler = "import" /\ pc = "done" /\ store = <<>>)
        => /\ outcome = "raised" <=> exc \in {"open", "latest"}
           /\ outcome = "returned"
                 => /\ \A k \in RawFields : Report[k] = 0
                    /\ Report.port_details = <<>>
                    /\ Report.customs_details = <<>>
                    /\ Report.policy_events = _get_policy_events
                    /\ Report.policy_events # <<>>
                    /\ \A k \in YoyFields \cup MomFields : Report[k] = None

C6_Witness == Returned /\ store = <<>> /\ Report.current_shipment = 0

\* the rows the chart must show: Jan 1 of the year before the reference
\* year up to Dec 31 of the reference year
InRange ==
    { r \in Rows(store) :
        /\ r.date >= ToDay(YearOf(RefDate) - 1, 1, 1)
        /\ r.date <= ToDay(YearOf(RefDate), 12, 31) }

Rank(r) == Cardinality({ q \in InRange : q.date < r.date })

\* C7: on a non-empty table, when chart assembly does not fail,
\* monthly_comparison is, for the in-range snapshots in ascending date
\* order, the four points actual-shipment, forecast-shipment,
\* actual-arrival, forecast-arrival keyed by the snapshot's date: its
\* length is 4 times the number of in-range snapshots.
C7_ChartIsRangeInOrder ==
    (Returned /\ store # <<>> /\ "chart" \notin absorbed)
        => LET mc == Report.monthly_comparison
           IN  /\ Len(mc) = 4 * Cardinality(InRange)
               /\ \A r \in InRange :
                    LET b == 4 * Rank(r)
                        key == <<YearOf(r.date), MonthOf(r.date), DayOf(r.date)>>
                    IN  /\ mc[b + 1] = [month |-> key, value |-> r.current_shipment,
                                        type |-> "actual_shipment"]
                        /\ mc[b + 2] = [month |-> key, value |-> r.forecast_shipment,
                                        type |-> "forecast_shipment"]
                        /\ mc[b + 3] = [month |-> key, value |-> r.current_arrival,
                                        type |-> "actual_arrival"]
                        /\ mc[b + 4] = [month |-> key, value |-> r.next_arrival,
                                        type |-> "forecast_arrival"]

C7_Witness ==
    /\ Returned
    /\ "chart" \notin absorbed
    /\ Len(store) = 3
    /\ Cardinality(InRange) = 2
    /\ store[1].date > store[2].date
    /\ store[1] \in InRange /\ store[2] \in InRange
    /\ Len(Report.monthly_comparison) = 8

\* C8 (as stated): the only failure that leaves get_soybean_import_data is
\* the table being unreachable (no session, or the first query failing);
\* a failing year-ago or month-ago lookup, chart assembly and the building
\* of the detail fields are absorbed into the report.
C8_OnlyStoreUnavailableRaises ==
    (handler = "import" /\ pc = "done" /\ outcome = "raised")
        => exc \in {"open", "latest"}

\* C8 (amended): get_soybean_import_data raises when the session cannot be
\* created, when any of the latest, year-ago and month-ago queries raises
\* and when building the report from the reference snapshot's detail
\* records raises; only a failure of chart assembly (monthly_comparison
\* is then empty) and a failure of close() are absorbed.
C8_RaisesButChartAndClose ==
    (handler = "import" /\ pc = "done")
        => /\ exc # "none" => outcome = "raised" /\ result = None
           /\ exc = "none" => outcome = "returned" /\ result # None
           /\ exc = "open" <=> SessionLocal = "None"
           /\ exc = "build" => BuildRaises(current_data[1])
           /\ (current_data # None /\ BuildRaises(current_data[1])) => outcome = "raised"
           /\ absorbed \subseteq {"chart", "close"}
           /\ ("chart" \in absorbed /\ outcome = "returned")
                 => Report.monthly_comparison = <<>>

C8_Witness ==
    /\ handler = "import" /\ pc = "done" /\ outcome = "raised"
    /\ exc = "build"
    /\ "chart" \in absorbed

\* C9: a call of get_soybean_import_data or get_monthly_comparison that
\* created a session has called close on it exactly once when it is done,
\* on every exit path; no call leaves its session unclosed and none calls
\* close without a session of its own.
C9_SessionClosedOnce ==
    /\ closed <= opened
    /\ opened <= 1
    /\ pc = "done" => closed = opened
    /\ pc = "try" => opened = 1 /\ closed = 0 /\ db = "session"
    /\ db = "None" => opened = 0
    /\ (pc = "done" /\ SessionLocal = "factory") => opened = 1

C9_Witness ==
    /\ pc = "done" /\ handler = "import" /\ outcome = "raised"
    /\ opened = 1 /\ closed = 1

\* C10: _calculate_yoy and _calculate_mom return 0.0 when previous = 0 and
\* (current - previous) / previous * 100 otherwise, so 0 for equal nonzero
\* arguments, and the two agree on every pair of arguments.
C10_PercentChange ==
    (calc # None /\ calc[1].yoy # None)
        => LET c == calc[1].current
               p == calc[1].previous
               y == calc[1].yoy
               m == calc[1].mom
           IN  /\ p = 0 => y = <<0, 1>> /\ m = <<0, 1>>
               /\ p # 0 => /\ y[2] > 0 /\ y[1] * p = (c - p) * 100 * y[2]
                           /\ m[2] > 0 /\ m[1] * p = (c - p) * 100 * m[2]
               /\ (c = p /\ p # 0) => y = <<0, 1>> /\ m = <<0, 1>>
               /\ y = m

C10_Witness ==
    /\ calc # None
    /\ calc[1].current = 6 /\ calc[1].previous = 5
    /\ calc[1].yoy = <<20, 1>>

\* the reference snapshot, read off the table
RefRow == CHOOSE r \in Rows(store) : r.date = RefDate

\* C11: on a non-empty table the report's date and its seven raw fields are
\* those of the snapshot of maximum date.
C11_ReferenceIsLatest ==
    (Returned /\ store # <<>>)
        => /\ Report.date = <<YearOf(RefDate), MonthOf(RefDate), DayOf(RefDate)>>
           /\ \A k \in RawFields : Report[k] = RefRow[k]
           /\ current_data = Some(RefRow)

C11_Witness ==
    /\ Returned
    /\ Len(store) = 3
    /\ store[2].date = RefDate
    /\ \E k \in RawFields : store[1][k] # store[2][k]
    /\ Report.current_shipment = store[2].current_shipment

\* C12: when chart assembly raises (the range query, or an append after
\* some rows) the report is still returned, monthly_comparison is empty and
\* every other field is what a build without the failure returns.
C12_ChartFailureEmptiesChart ==
    /\ (handler = "import" /\ pc \in {"finally", "done"} /\ "chart" \in absorbed)
          => /\ monthly_comparison = <<>>
             /\ exc = "none" <=> ~BuildRaises(current_data[1])
             /\ exc = "none" => result # None
    /\ (Returned /\ "chart" \in absorbed)
          => /\ Report.monthly_comparison = <<>>
             /\ prev # None =>
                   [Content(Report) EXCEPT
                       !.monthly_comparison = prev[1].monthly_comparison] = prev[1]

C12_Witness ==
    /\ Returned
    /\ "chart" \in absorbed
    /\ prev # None
    /\ Len(prev[1].monthly_comparison) >= 8
    /\ Report.monthly_comparison = <<>>

\* q is (current - previous) / previous * 100, or 0.0 when previous is 0
IsPercentChange(q, current, previous) ==
    IF previous = 0 THEN q = <<0, 1>>
    ELSE /\ Len(q) = 2 /\ q[2] > 0
         /\ q[1] * previous = (current - previous) * 100 * q[2]

\* C13: current_shipment_mom, forecast_shipment_mom and current_arrival_mom
\* are populated exactly when some snapshot is dated in
\* [reference - 30, reference - 30 + 7), each as the percent change of the
\* reference value against the comparable's; next_arrival_mom is never
\* set; the year-ago rows do not decide the month-over-month fields nor
\* the month-ago rows the year-over-year fields.
C13_MomIffComparable ==
    (Returned /\ store # <<>>)
        => /\ MonthWindow = {} => \A k \in MomFields : Report[k] = None
           /\ MonthWindow # {}
                 => /\ prev_month_data # None /\ prev_month_data[1] \in MonthWindow
                    /\ IsPercentChange(Report.current_shipment_mom,
                                       RefRow.current_shipment,
                                       prev_month_data[1].current_shipment)
                    /\ IsPercentChange(Report.forecast_shipment_mom,
                                       RefRow.forecast_shipment,
                                       prev_month_data[1].forecast_shipment)
                    /\ IsPercentChange(Report.current_arrival_mom,
                                       RefRow.current_arrival,
                                       prev_month_data[1].current_arrival)
           /\ Report.next_arrival_mom = None
           /\ (\E k \in YoyFields : Report[k] # None) <=> YearWindow # {}

C13_Witness ==
    /\ Returned
    /\ MonthWindow # {}
    /\ YearWindow = {}
    /\ Report.current_shipment_mom = <<25, 1>>
    /\ Report.forecast_shipment_mom = <<25, 1>>
    /\ Report.current_shipment_yoy = None

\* C14: shipment_forecast_diff is current_shipment - forecast_shipment and
\* arrival_forecast_diff is current_month_arrival - next_arrival of the
\* reference snapshot, with or without comparables.
C14_ForecastDiffs ==
    (Returned /\ store # <<>>)
        => /\ Report.shipment_forecast_diff =
                 <<RefRow.current_shipment - RefRow.forecast_shipment>>
           /\ Report.arrival_forecast_diff =
                 <<RefRow.current_month_arrival - RefRow.next_arrival>>

C14_Witness ==
    /\ Returned
    /\ YearWindow # {}
    /\ MonthWindow = {}
    /\ Report.shipment_forecast_diff = <<10>>
    /\ Report.arrival_forecast_diff = <<0 - 10>>

\* the events stream_response has yielded, by kind
Terminal(e) == e.type \in {"done", "error"}

Partial(e) == e.type \in {"reasoning", "content"}

Yielded(type) == \E i \in DOMAIN events : events[i].type = type

\* the generator ran to its end (it was not closed by its consumer)
CompleteRun == spc = "end"

\* C15: the events of stream_response are 'reasoning'/'content' events
\* followed, in a complete run, by exactly one terminal event, 'done' or
\* 'error' and never both; nothing follows the terminal event, and no
\* 'reasoning'/'content' event is yielded after a disconnect was observed.
C15_EventOrder ==
    /\ \A i \in DOMAIN events :
          /\ Partial(events[i]) \/ Terminal(events[i])
          /\ Terminal(events[i]) => i = Len(events)
    /\ ~(Yielded("done") /\ Yielded("error"))
    /\ CompleteRun => (events # <<>> /\ Terminal(events[Len(events)]))
    /\ observed >= 0 =>
          \A i \in DOMAIN events : i > observed => ~Partial(events[i])

\* a complete run that yielded text, saw the client leave and then ended
\* with 'done'
C15_Witness ==
    /\ CompleteRun
    /\ observed >= 1
    /\ Len(events) = observed + 1
    /\ events[Len(events)].type = "done"
    /\ response > 0

\* C16: save_strategy_analysis is called at most once per stream, only
\* after 'done' was yielded and with the date of the stream and the content
\* and reasoning of that event; nothing is saved once 'error' was yielded,
\* a failing save yields no 'error', and get_options_strategies asks the
\* LLM only for a date that has no stored analysis.
C16_SaveOnceAfterDone ==
    /\ Len(saves) <= 1
    /\ saves # <<>> =>
          /\ events # <<>>
          /\ events[Len(events)].type = "done"
          /\ saves[1].date = request[1].date
          /\ saves[1].content = events[Len(events)].content
          /\ saves[1].reasoning_content = events[Len(events)].reasoning
    /\ Yielded("error") => saves = <<>>
    /\ saveFailed => ~Yielded("error")
    /\ \A i \in DOMAIN llmCalls :
          llmCalls[i].endpoint = "options" => llmCalls[i].stored = None
    /\ http = "stored" => llmCalls = <<>>

\* a stream whose 'done' carried both texts was saved; the save failed
C16_Witness ==
    /\ CompleteRun
    /\ Len(saves) = 1
    /\ saveFailed
    /\ saves[1].content # <<>>
    /\ saves[1].reasoning_content # <<>>
    /\ llmCalls # <<>>
    /\ llmCalls[1].endpoint = "options"

\* C17: get_daily_data is a write-once file cache: a call that finds the
\* file returns its rows without a vendor call and leaves the file as it was;
\* a call that finds none and succeeds leaves the file behind; a call that
\* fails returns None and writes no cache file; and the result of
\* get_multiple_contracts_daily holds only contracts with non-empty data.
C17_WriteOnceCache ==
    /\ last_call # None =>
          LET call == last_call[1]
          IN  /\ call.before # None =>
                    /\ ~call.vendorCalled
                    /\ files[call.key] = call.before
                    /\ call.ret \in {None, Some(read_csv(call.before[1]))}
              /\ (call.before = None /\ call.ret # None) => files[call.key] # None
              /\ call.ret = None => files[call.key] = call.before
    /\ contracts # None =>
          \A i \in DOMAIN contracts[1].results :
              Len(contracts[1].results[i].df.date) > 0

====
